---- MODULE Spec2Model ----
(***************************************************************************)
(* GrepDojo: a recursive, filtered, pattern-matching text search.          *)
(*                                                                         *)
(*   crates/matcher   RegexMatcher: literal prefilter, rare byte, regex    *)
(*   crates/searcher  Searcher: memory-mapped and chunked buffered scans   *)
(*   crates/ignore    Ignore: nested .gitignore chains with a cache        *)
(*   crates/core      process_paths / walk_directory_*                     *)
(*                                                                         *)
(* Text is a sequence of one-character strings; offsets are 0-based as in  *)
(* the source, so the byte at offset i of a text t is t[i + 1].            *)
(***************************************************************************)
EXTENDS Integers, Sequences, FiniteSets, TLC

VARIABLES
    \* crates/matcher: one RegexMatcher and its last call, and whether a call
    \* on it panicked
    pattern, regex, literal, rare_byte, haystack, matches, matched, panicked,
    \* crates/searcher: one file, the chunked buffered scan of it in progress
    \* (read offset, carryover, line counter, matches so far, the texts handed
    \* to the matcher so far) and the result of the memory-mapped scan of it
    file, roff, carryover, line_num, all_matches, evaluated, bpc, mmap_result,
    \* crates/ignore: the .gitignore files on disk, the cache of one Ignore, and
    \* its root and its last should_ignore call (path and answer)
    disk, iroot, cache, ipath, iresult,
    \* crates/core: the arguments of the run (root paths, parallel or not), the
    \* files that cannot be read and the directories that cannot be walked, the
    \* position of process_paths (root in hand, step, entry of the walk), the
    \* file list and the workers of the parallel walk, the holder of the printer
    \* lock, standard output, the result of the run and its error, the log of what was done
    \* to each file, and the output and result of the run before this one
    roots, use_parallel, unreadable, walk_errors, ri, rpc, wpos, files, taken, workers,
    printer, output, status, failure, events, prev

mvars == <<pattern, regex, literal, rare_byte, haystack, matches, matched, panicked>>
svars == <<file, roff, carryover, line_num, all_matches, evaluated, bpc, mmap_result>>
ivars == <<disk, iroot, cache, ipath, iresult>>
args == <<roots, use_parallel, unreadable, walk_errors>>
rvars == <<args, ri, rpc, wpos, files, taken, workers, printer, output, status, failure,
          events, prev>>
vars == <<mvars, svars, ivars, rvars>>

\* What the operations of one crate leave alone
not_matcher == <<svars, ivars, rvars>>
not_searcher == <<mvars, ivars, rvars>>
not_ignore == <<mvars, svars, rvars>>

-----------------------------------------------------------------------------
(* Bounds of the model *)

MaxPat == 4        \* longest pattern text
MaxLine == 3       \* longest line handed to the matcher
MaxFile == 4       \* longest file content, in bytes
MaxRootRules == 2  \* most lines of the .gitignore of the root directory
MaxSubRules == 1   \* most lines of the .gitignore of a subdirectory

-----------------------------------------------------------------------------
(* Generic helpers *)

None == <<>>
Some(x) == <<x>>

SeqsUpTo(S, n) == UNION {[1..k -> S] : k \in 0..n}

MinOf(S) == CHOOSE x \in S : \A y \in S : x <= y

\* The element of a set of one element: {F(v) : v \in {e}} computes e once
\* however often F uses it
TheOne(S) == CHOOSE x \in S : TRUE

\* str::contains / memmem::Finder: needle occurs in text
Contains(text, needle) ==
    \E i \in 0..(Len(text) - Len(needle)) :
        SubSeq(text, i + 1, i + Len(needle)) = needle

\* &text[from..to] with 0-based, end-exclusive offsets
Slice(text, from, to) == SubSeq(text, from + 1, to)

\* No Searcher in use
SearcherIdle ==
    /\ file = <<>> /\ roff = 0 /\ carryover = <<>> /\ line_num = 1
    /\ all_matches = <<>> /\ evaluated = <<>> /\ bpc = "idle" /\ mmap_result = None

\* No Ignore in use
IgnoreIdle ==
    disk = <<>> /\ iroot = <<>> /\ cache = <<>> /\ ipath = <<>> /\ iresult = None

\* No run in progress
RunIdle ==
    /\ roots = <<>> /\ use_parallel = FALSE /\ unreadable = {} /\ walk_errors = {}
    /\ ri = 0 /\ rpc = "idle" /\ wpos = 0 /\ files = <<>> /\ taken = {}
    /\ workers = <<>> /\ printer = 0 /\ output = <<>> /\ status = "idle"
    /\ failure = None
    /\ events = <<>> /\ prev = None

-----------------------------------------------------------------------------
(* crates/matcher: hint extraction *)

PatChars == {"a", "b", ".", "*", "|", "^", "\\"}
LineChars == {"a", "b"}

is_special_char(c) ==
    c \in {"^", "$", ".", "*", "+", "?", "{", "}", "[", "]", "(", ")", "|", "\\"}

is_special_byte(b) ==
    b \in {".", "*", "+", "?", "{", "}", "[", "]", "(", ")", "|", "\\", "^", "$"}

\* The bytes of the pattern that are not metacharacters, and how often each occurs
literal_bytes(p) == SelectSeq(p, LAMBDA b : ~is_special_byte(b))

freq(p, b) == Cardinality({i \in 1..Len(literal_bytes(p)) : literal_bytes(p)[i] = b})

\* select_rare_byte: min_by_key over the iteration of a HashMap, whose order is
\* randomised per process: any byte of minimal count can be the one returned.
\* The set of values the call can return.
select_rare_byte(p) ==
    LET bytes == literal_bytes(p)
        keys == {bytes[i] : i \in 1..Len(bytes)}
        rarest == {b \in keys : \A c \in keys : freq(p, b) <= freq(p, c)}
    IN  IF bytes = <<>> THEN {None}
        ELSE {IF freq(p, b) <= 5 THEN Some(b) ELSE None : b \in rarest}

is_pure_literal(p) == \A i \in 1..Len(p) : ~is_special_char(p[i])

RECURSIVE extract_prefix_from(_, _)
extract_prefix_from(p, i) ==
    IF i > Len(p) THEN <<>>
    ELSE IF p[i] \in {".", "*", "+", "?", "{", "[", "(", "|"} THEN <<>>
    ELSE IF p[i] = "\\"
         THEN (IF i + 1 <= Len(p) THEN <<p[i + 1]>> ELSE <<>>)
              \o extract_prefix_from(p, i + 2)
    ELSE <<p[i]>> \o extract_prefix_from(p, i + 1)

extract_prefix(p) == extract_prefix_from(p, 1)

extract_literals(p) ==
    IF is_pure_literal(p) THEN Some(p)
    ELSE IF Len(extract_prefix(p)) >= 3 THEN Some(extract_prefix(p))
    ELSE None

-----------------------------------------------------------------------------
(* The regex crate, for the pattern syntax the model draws patterns from:    *)
(* alternatives separated by |, each a sequence of items; an item is a       *)
(* literal byte, an escaped metacharacter, ".", each optionally starred, or  *)
(* the anchor ^. Matching is leftmost-first with greedy repetition.          *)

Token(kind, ch, star) == [kind |-> kind, ch |-> ch, star |-> star]
BadToken == Token("bad", "", FALSE)

RECURSIVE regex_parse(_, _)
regex_parse(p, i) ==
    IF i > Len(p) THEN <<>>
    ELSE LET c == p[i] IN
        IF c = "|" THEN <<Token("bar", c, FALSE)>> \o regex_parse(p, i + 1)
        ELSE IF c = "^"
             THEN IF i + 1 <= Len(p) /\ p[i + 1] = "*" THEN <<BadToken>>
                  ELSE <<Token("start", c, FALSE)>> \o regex_parse(p, i + 1)
        ELSE IF is_special_char(c) /\ c \notin {".", "\\"} THEN <<BadToken>>
        ELSE LET esc == (c = "\\")
                 ok == ~esc \/ (i + 1 <= Len(p) /\ is_special_char(p[i + 1]))
                 ch == IF esc THEN p[i + 1] ELSE c
                 j == IF esc THEN i + 2 ELSE i + 1
                 kind == IF c = "." THEN "any" ELSE "lit"
                 star == j <= Len(p) /\ p[j] = "*"
                 k == IF star THEN j + 1 ELSE j
                 dbl == k <= Len(p) /\ p[k] = "*"
             IN  IF ~ok \/ dbl THEN <<BadToken>>
                 ELSE <<Token(kind, ch, star)>> \o regex_parse(p, k)

RECURSIVE split_alts(_)
split_alts(toks) ==
    LET bars == {i \in 1..Len(toks) : toks[i].kind = "bar"} IN
    IF bars = {} THEN <<toks>>
    ELSE <<SubSeq(toks, 1, MinOf(bars) - 1)>>
         \o split_alts(SubSeq(toks, MinOf(bars) + 1, Len(toks)))

\* Regex::new(pattern) succeeds
regex_ok(p) == \A i \in 1..Len(regex_parse(p, 1)) : regex_parse(p, 1)[i].kind # "bad"

\* Regex::new(pattern): the compiled alternatives
regex_new(p) == split_alts(regex_parse(p, 1))

\* End offset of the preferred match of items[k..] starting at offset i, or -1
RECURSIVE match_here(_, _, _, _)
match_here(items, k, text, i) ==
    IF k > Len(items) THEN i
    ELSE LET t == items[k]
             hit == i < Len(text)
                    /\ (IF t.kind = "any" THEN text[i + 1] # "\n" ELSE text[i + 1] = t.ch)
         IN  IF t.kind = "start"
             THEN IF i = 0 THEN match_here(items, k + 1, text, i) ELSE -1
             ELSE IF t.star
             THEN LET more == IF hit THEN match_here(items, k, text, i + 1) ELSE -1
                  IN  IF more # -1 THEN more ELSE match_here(items, k + 1, text, i)
             ELSE IF hit THEN match_here(items, k + 1, text, i + 1) ELSE -1

\* The first alternative that matches at offset s decides the match
or_else(e, alt) == IF e # -1 THEN e ELSE alt

RECURSIVE match_alts(_, _, _, _)
match_alts(re, j, text, s) ==
    IF j > Len(re) THEN -1
    ELSE or_else(match_here(re[j], 1, text, s), match_alts(re, j + 1, text, s))

\* Regex::find_at: the leftmost match starting at or after `at`, as <<start, end>>
match_starts(re, text, at) == {s \in at..Len(text) : match_alts(re, 1, text, s) # -1}

found_at(re, text, starts) ==
    IF starts = {} THEN <<>>
    ELSE <<MinOf(starts), match_alts(re, 1, text, MinOf(starts))>>

regex_find(re, text, at) == found_at(re, text, match_starts(re, text, at))

\* Regex::find_iter: successive non-overlapping matches; an empty match that
\* touches the end of the previous match is skipped
skip_empty(re, text, at, last_end, m0) ==
    IF m0 # <<>> /\ m0[1] = m0[2] /\ m0[2] = last_end
    THEN regex_find(re, text, at + 1)
    ELSE m0

RECURSIVE find_iter_from(_, _, _, _)
find_iter_rest(re, text, m) ==
    IF m = <<>> THEN <<>>
    ELSE <<m>> \o find_iter_from(re, text, m[2], m[2])

find_iter_from(re, text, at, last_end) ==
    find_iter_rest(re, text, skip_empty(re, text, at, last_end, regex_find(re, text, at)))

find_iter(re, text) == find_iter_from(re, text, 0, -1)

\* Regex::is_match
regex_is_match(re, text) == regex_find(re, text, 0) # <<>>

-----------------------------------------------------------------------------
(* crates/matcher: RegexMatcher *)

window_size == 200

Match(start, end, line, content) ==
    [start |-> start, end |-> end, line |-> line, content |-> content]

\* The matches find_iter reports on `text`, as Match values with offsets
\* shifted by `base`, line 0 and the matched text as content
to_matches(ms, text, base) ==
    [i \in 1..Len(ms) |->
        Match(base + ms[i][1], base + ms[i][2], 0, Slice(text, ms[i][1], ms[i][2]))]

regex_matches(re, text, base) == TheOne({to_matches(ms, text, base) : ms \in {find_iter(re, text)}})

KeyLE(a, b) == a.start < b.start \/ (a.start = b.start /\ a.end <= b.end)

\* Vec::sort_by_key(|m| (m.start, m.end)): a stable sort
insert_by_key(sorted, x) ==
    LET n == Cardinality({i \in 1..Len(sorted) : KeyLE(sorted[i], x)})
    IN  SubSeq(sorted, 1, n) \o <<x>> \o SubSeq(sorted, n + 1, Len(sorted))

RECURSIVE sort_by_key(_)
sort_by_key(s) ==
    IF s = <<>> THEN <<>>
    ELSE insert_by_key(sort_by_key(SubSeq(s, 1, Len(s) - 1)), s[Len(s)])

\* Vec::dedup_by(|a, b| a.start == b.start && a.end == b.end)
push_unless_same(d, x) ==
    IF d # <<>> /\ d[Len(d)].start = x.start /\ d[Len(d)].end = x.end THEN d
    ELSE Append(d, x)

RECURSIVE dedup_by(_)
dedup_by(s) ==
    IF s = <<>> THEN <<>>
    ELSE push_unless_same(dedup_by(SubSeq(s, 1, Len(s) - 1)), s[Len(s)])

\* memchr::memchr(b, &text[from..]): offset of the first b at or after `from`,
\* as an offset of text; -1 if there is none
memchr(b, text, from) ==
    LET occ == {o \in from..(Len(text) - 1) : text[o + 1] = b}
    IN  IF occ = {} THEN -1 ELSE MinOf(occ)

\* candidate_pos.saturating_sub(window_size)
window_start(candidate_pos) ==
    IF candidate_pos >= window_size THEN candidate_pos - window_size ELSE 0

\* (candidate_pos + window_size).min(haystack.len())
window_end(candidate_pos, len) ==
    IF candidate_pos + window_size <= len THEN candidate_pos + window_size ELSE len

\* The matches of the regex in the window &hay[start..end], offsets adjusted
window_matches(re, hay, start, end) == regex_matches(re, Slice(hay, start, end), start)

\* The while-let loop of find_matches_with_rare_byte, from offset pos
RECURSIVE rare_byte_scan(_, _, _, _)
rare_byte_at(re, hay, rb, candidate_pos) ==
    window_matches(re, hay, window_start(candidate_pos),
                   window_end(candidate_pos, Len(hay)))
    \o rare_byte_scan(re, hay, rb, candidate_pos + 1)

rare_byte_scan(re, hay, rb, pos) ==
    IF memchr(rb, hay, pos) = -1 THEN <<>>
    ELSE rare_byte_at(re, hay, rb, memchr(rb, hay, pos))

find_matches_with_rare_byte(re, hay, rb) ==
    dedup_by(sort_by_key(rare_byte_scan(re, hay, rb, 0)))

\* The two bytes of a character that takes two bytes in UTF-8: the lead byte
\* and the continuation byte
Lead == "C3"
Cont == "A9"

\* str::is_char_boundary: the start, the end, or a byte that does not continue
\* a character
is_char_boundary(text, index) ==
    \/ index = 0
    \/ index = Len(text)
    \/ index < Len(text) /\ text[index + 1] # Cont

\* The slices haystack[pos..] and haystack[start..end] of the while-let loop
\* of find_matches_with_rare_byte, from offset pos: a slice whose start or end
\* is not a character boundary panics
RECURSIVE rare_byte_panics(_, _, _)
rare_byte_slices_panic(hay, rb, candidate_pos) ==
    \/ ~is_char_boundary(hay, window_start(candidate_pos))
    \/ ~is_char_boundary(hay, window_end(candidate_pos, Len(hay)))
    \/ rare_byte_panics(hay, rb, candidate_pos + 1)

rare_byte_panics(hay, rb, pos) ==
    \/ ~is_char_boundary(hay, pos)
    \/ /\ memchr(rb, hay, pos) # -1
       /\ rare_byte_slices_panic(hay, rb, memchr(rb, hay, pos))

\* RegexMatcher::find_matches panics: only the rare-byte tier slices the line
find_matches_panics(lit, rb, hay) ==
    lit = None /\ rb # None /\ rare_byte_panics(hay, rb[1], 0)

\* RegexMatcher::find_matches of the matcher (re, lit, rb) on the line hay,
\* when it returns
find_matches(re, lit, rb, hay) ==
    IF lit # None
    THEN IF Contains(hay, lit[1]) THEN regex_matches(re, hay, 0) ELSE <<>>
    ELSE IF rb # None
    THEN find_matches_with_rare_byte(re, hay, rb[1])
    ELSE regex_matches(re, hay, 0)

\* RegexMatcher::is_match
is_match(re, lit, rb, hay) ==
    IF lit # None
    THEN IF Contains(hay, lit[1]) THEN regex_is_match(re, hay) ELSE FALSE
    ELSE IF rb # None
    THEN IF memchr(rb[1], hay, 0) # -1 THEN regex_is_match(re, hay) ELSE FALSE
    ELSE regex_is_match(re, hay)

Patterns == {p \in SeqsUpTo(PatChars, MaxPat) : regex_ok(p)}
Lines == SeqsUpTo(LineChars, MaxLine)

\* Lines longer than a window of find_matches_with_rare_byte, for the patterns
\* whose matches depend on where a window starts and ends: n bytes that are in
\* no pattern, between or after the bytes the patterns name
Filler(n) == [i \in 1..n |-> "x"]
LongLines ==
    { <<"b">> \o Filler(window_size) \o <<"a">>,
      <<"x", "a">> \o Filler(window_size - 1) \o <<"a">> }
WindowPatterns == {<<"a", "b", "*">>, <<"^", "a">>}

\* A pattern that names a two-byte character, and lines that hold one: alone,
\* before an "a", and more than a window away from an "a", where the edge of
\* the window falls before, inside or after the character
MultiBytePatterns == {<<Lead, Cont, "|", "a">>}
MultiByteLines ==
    { <<Lead, Cont>>,
      <<Lead, Cont, "a">>,
      <<Lead, Cont>> \o Filler(window_size) \o <<"a">>,
      <<Lead, Cont>> \o Filler(window_size - 1) \o <<"a">>,
      <<"a">> \o Filler(window_size - 2) \o <<Lead, Cont>> }

LinesFor(p) ==
    IF p \in WindowPatterns THEN Lines \cup LongLines \cup MultiByteLines
    ELSE IF p \in MultiBytePatterns THEN Lines \cup MultiByteLines
    ELSE Lines

\* RegexMatcher::new(pattern): the matcher after construction, no call made yet
MatcherInit ==
    /\ pattern \in Patterns \cup MultiBytePatterns
    /\ regex = regex_new(pattern)
    /\ literal = extract_literals(pattern)
    /\ rare_byte \in select_rare_byte(pattern)
    /\ haystack = <<>>
    /\ matches = None
    /\ matched = None
    /\ panicked = FALSE
    /\ SearcherIdle
    /\ IgnoreIdle
    /\ RunIdle

\* The line of a call: any line for the first call on this matcher, then the
\* same line again, so that the two entry points are seen on one input
CallLines == IF matches = None /\ matched = None THEN LinesFor(pattern) ELSE {haystack}

\* matcher.find_matches(line): the call returns its matches or panics, and
\* nothing runs after a panic
FindMatches ==
    \E line \in CallLines :
        /\ matches = None /\ ~panicked
        /\ haystack' = line
        /\ panicked' = find_matches_panics(literal, rare_byte, line)
        /\ matches' = IF panicked' THEN None
                      ELSE Some(find_matches(regex, literal, rare_byte, line))
        /\ UNCHANGED <<pattern, regex, literal, rare_byte, matched, not_matcher>>

\* matcher.is_match(line)
IsMatch ==
    \E line \in CallLines :
        /\ matched = None /\ ~panicked
        /\ haystack' = line
        /\ matched' = Some(is_match(regex, literal, rare_byte, line))
        /\ UNCHANGED <<pattern, regex, literal, rare_byte, matches, panicked, not_matcher>>

MatcherNext == FindMatches \/ IsMatch

SpecMatcher == MatcherInit /\ [][MatcherNext]_vars

-----------------------------------------------------------------------------
(* Claims about the matcher *)

\* What the full pattern engine reports over the whole line
FullEngine == regex_matches(regex, haystack, 0)

Positions(ms) == [i \in 1..Len(ms) |-> <<ms[i].start, ms[i].end>>]

\* C1: with a literal hint, find_matches returns exactly the matches the full
\* pattern engine reports over the whole line: the prefilter drops no match.
C1_LiteralPrefilterExact ==
    (literal # None /\ matches # None) => matches[1] = FullEngine

\* C2: with no literal hint but a rare-byte hint, find_matches returns exactly
\* the (start, end) matches of the full engine over the whole line, ascending
\* and without duplicates.
C2_RareByteExact ==
    (literal = None /\ rare_byte # None /\ matches # None)
        => Positions(matches[1]) = Positions(FullEngine)

\* C12: on each tier, once both were called on a line, is_match has answered
\* true exactly when find_matches has returned at least one Match.
C12_IsMatchMirrorsFindMatches ==
    (matches # None /\ matched # None) => (matched[1] <=> matches[1] # <<>>)

-----------------------------------------------------------------------------
(* crates/searcher: Searcher *)

MMAP_THRESHOLD == 128 * 1024
BUFFER_SIZE == 64 * 1024

NL == "\n"
CR == "\r"
FF == "FF"         \* a byte that occurs in no UTF-8 text

FileBytes == {"a", NL, CR, FF}
Files == SeqsUpTo(FileBytes, MaxFile)

\* The patterns of the searcher's matcher: a pure literal, and one that has
\* neither a literal nor a rare byte and matches any character but \n
ScanPatterns == {<<"a">>, <<".">>}

\* std::str::from_utf8(bytes).is_ok()
from_utf8_ok(bytes) == \A i \in 1..Len(bytes) : bytes[i] # FF

\* str::lines(): the pieces between \n, a final piece without \n if it is not
\* empty, each without the \r that precedes its \n. With the offset of each
\* piece, counted from `base`.
RECURSIVE lines_at(_, _)
lines_at(text, base) ==
    IF text = <<>> THEN <<>>
    ELSE LET nls == {i \in 1..Len(text) : text[i] = NL} IN
         IF nls = {} THEN <<[off |-> base, text |-> text]>>
         ELSE LET n == MinOf(nls)
                  raw == SubSeq(text, 1, n - 1)
                  line == IF raw # <<>> /\ raw[Len(raw)] = CR
                          THEN SubSeq(raw, 1, Len(raw) - 1) ELSE raw
              IN  <<[off |-> base, text |-> line]>>
                  \o lines_at(SubSeq(text, n + 1, Len(text)), base + n)

texts_of(ls) == [i \in 1..Len(ls) |-> ls[i].text]
str_lines(text) == texts_of(lines_at(text, 0))

\* matcher.find_matches(line), each match given the line number and the line
with_line(ms, num, line) ==
    [i \in 1..Len(ms) |-> Match(ms[i].start, ms[i].end, num, line)]

line_matches(line, num) ==
    TheOne({with_line(find_matches(regex, literal, rare_byte, l), num, l) : l \in {line}})

\* Searcher::should_use_mmap
should_use_mmap(f) == Len(f) > MMAP_THRESHOLD

\* The for loop of search_file_mmap from offset i, and the final line after it
RECURSIVE mmap_loop(_, _, _, _)
mmap_loop(f, i, start, num) ==
    IF i >= Len(f)
    THEN IF start < Len(f) /\ from_utf8_ok(Slice(f, start, Len(f)))
         THEN line_matches(Slice(f, start, Len(f)), num)
         ELSE <<>>
    ELSE IF f[i + 1] = NL
    THEN (IF from_utf8_ok(Slice(f, start, i))
          THEN line_matches(Slice(f, start, i), num) ELSE <<>>)
         \o mmap_loop(f, i + 1, i + 1, num + 1)
    ELSE mmap_loop(f, i + 1, start, num)

search_file_mmap(f) == mmap_loop(f, 0, 0, 1)

\* The chunk alone: the carryover of the turn before is lost
combine_without_carryover(carry, chunk) == chunk

\* search_file_buffered, lines 90-96: the carryover goes in front of the chunk
combine(carry, chunk) == carry \o chunk

\* lines 98-105: offset of the last \n of the buffer, -1 if it has none
last_newline(buffer) ==
    LET nls == {i \in 0..(Len(buffer) - 1) : buffer[i + 1] = NL}
    IN  IF nls = {} THEN -1 ELSE CHOOSE i \in nls : \A j \in nls : j <= i

\* lines 109-110: the complete lines of the buffer, and what is carried over
complete_lines(buffer) == Slice(buffer, 0, last_newline(buffer) + 1)
next_carryover(buffer) ==
    IF last_newline(buffer) = -1 THEN buffer
    ELSE Slice(buffer, last_newline(buffer) + 1, Len(buffer))

\* lines 113-123: the matches of the lines of `text`, numbered from num
RECURSIVE lines_matches(_, _)
lines_matches(ls, num) ==
    IF ls = <<>> THEN <<>>
    ELSE line_matches(Head(ls), num) \o lines_matches(Tail(ls), num + 1)

\* search_file_buffered when every read fills the buffer as far as the file
\* goes: the loop from offset off, and the final line after it
RECURSIVE buffered_loop(_, _, _, _)
RECURSIVE buffered_turn(_, _, _, _)
buffered_loop(f, off, carry, num) ==
    IF off >= Len(f)
    THEN IF carry # <<>> /\ from_utf8_ok(carry) THEN line_matches(carry, num) ELSE <<>>
    ELSE IF Len(f) - off > BUFFER_SIZE
    THEN buffered_turn(f, off + BUFFER_SIZE,
                       combine(carry, Slice(f, off, off + BUFFER_SIZE)), num)
    ELSE buffered_turn(f, Len(f), combine(carry, Slice(f, off, Len(f))), num)

\* lines 113-123 and the turns after them: ls are the complete lines
buffered_lines(f, off, buffer, num, ls) ==
    lines_matches(ls, num) \o buffered_loop(f, off, next_carryover(buffer), num + Len(ls))

buffered_step(f, off, buffer, num) ==
    IF last_newline(buffer) # -1 /\ from_utf8_ok(complete_lines(buffer))
    THEN TheOne({buffered_lines(f, off, buffer, num, ls) :
                    ls \in {str_lines(complete_lines(buffer))}})
    ELSE buffered_loop(f, off, next_carryover(buffer), num)

\* One turn of the loop on the buffer that was put together
buffered_turn(f, off, buffer, num) == TheOne({buffered_step(f, off, b, num) : b \in {buffer}})

search_file_buffered(f) == buffered_loop(f, 0, <<>>, 1)

\* Searcher::search_file
search_file(f) ==
    IF should_use_mmap(f) THEN search_file_mmap(f) ELSE search_file_buffered(f)

SearcherInit ==
    /\ pattern \in ScanPatterns
    /\ regex = regex_new(pattern)
    /\ literal = extract_literals(pattern)
    /\ rare_byte \in select_rare_byte(pattern)
    /\ haystack = <<>> /\ matches = None /\ matched = None /\ panicked = FALSE
    /\ file \in Files
    /\ roff = 0
    /\ carryover = <<>>
    /\ line_num = 1
    /\ all_matches = <<>>
    /\ evaluated = <<>>
    /\ bpc = "reading"
    /\ mmap_result = None
    /\ IgnoreIdle
    /\ RunIdle

\* One turn of the loop of search_file_buffered in which read returns n > 0
\* bytes: at most the buffer size and what is left of the file, possibly less
BufferedRead ==
    /\ bpc = "reading"
    /\ \E n \in 1..(Len(file) - roff) :
        /\ n <= BUFFER_SIZE
        /\ LET buffer == combine(carryover, Slice(file, roff, roff + n))
               text == complete_lines(buffer)
               decoded == last_newline(buffer) # -1 /\ from_utf8_ok(text)
           IN  /\ roff' = roff + n
               /\ carryover' = next_carryover(buffer)
               /\ all_matches' = IF decoded
                                 THEN all_matches \o lines_matches(str_lines(text), line_num)
                                 ELSE all_matches
               /\ line_num' = IF decoded THEN line_num + Len(str_lines(text)) ELSE line_num
               /\ evaluated' = IF decoded
                               THEN evaluated \o lines_at(text, roff - Len(carryover))
                               ELSE evaluated
    /\ UNCHANGED <<file, bpc, mmap_result, not_searcher>>

\* read returns 0 at the end of the file: the loop ends, what is left in the
\* carryover is the final line, and the matches are returned
BufferedEof ==
    /\ bpc = "reading"
    /\ roff = Len(file)
    /\ LET final == carryover # <<>> /\ from_utf8_ok(carryover)
       IN  /\ all_matches' = IF final
                             THEN all_matches \o line_matches(carryover, line_num)
                             ELSE all_matches
           /\ evaluated' = IF final
                           THEN Append(evaluated,
                                       [off |-> roff - Len(carryover), text |-> carryover])
                           ELSE evaluated
    /\ bpc' = "done"
    /\ UNCHANGED <<file, roff, carryover, line_num, mmap_result, not_searcher>>

\* File::open or read fails: search_file_buffered returns the error
BufferedFail ==
    /\ bpc = "reading"
    /\ bpc' = "failed"
    /\ UNCHANGED <<file, roff, carryover, line_num, all_matches, evaluated, mmap_result,
                   not_searcher>>

\* search_file_mmap on the same file
SearchFileMmap ==
    /\ bpc = "done"
    /\ mmap_result = None
    /\ mmap_result' = Some(search_file_mmap(file))
    /\ UNCHANGED <<file, roff, carryover, line_num, all_matches, evaluated, bpc,
                   not_searcher>>

SearcherNext == BufferedRead \/ BufferedEof \/ BufferedFail \/ SearchFileMmap

SpecSearcher == SearcherInit /\ [][SearcherNext]_vars

-----------------------------------------------------------------------------
(* Claims about the searcher *)

\* The logical lines of the file, each with the offset it starts at
FileLines == lines_at(file, 0)

\* C3: for every file content the memory-mapped scan and the chunked buffered
\* scan return the identical ordered sequence of Matches.
C3_MmapEqualsBuffered ==
    (bpc = "done" /\ mmap_result # None) => all_matches = mmap_result[1]

\* C9: in the chunked buffered scan, however the reads split the file, every
\* text handed to the matcher is one complete logical line of the file, no
\* line is handed over twice, and with every chunk decodable no line is lost.
C9_WholeLinesOnly ==
    /\ \A i \in 1..Len(evaluated) :
          \E j \in 1..Len(FileLines) : FileLines[j] = evaluated[i]
    /\ \A i, j \in 1..Len(evaluated) : i < j => evaluated[i].off < evaluated[j].off
    /\ (bpc = "done" /\ from_utf8_ok(file)) => evaluated = FileLines

\* A read ended in the middle of a line after a complete line was matched:
\* bytes are carried over to the next chunk
C9_Witness ==
    /\ bpc = "reading"
    /\ evaluated # <<>>
    /\ carryover # <<>>
    /\ roff < Len(file)

\* The number of separators of the file, and the bytes after the last one
Separators == Cardinality({i \in 1..Len(file) : file[i] = NL})
FinalLine == next_carryover(file)

\* What C10 asks of the result of a scan: the matches numbered beyond the
\* separators of the file are those of the final line, numbered separators + 1
FinalLineScanned(result) ==
    SelectSeq(result, LAMBDA m : m.line > Separators)
        = IF FinalLine # <<>> /\ from_utf8_ok(FinalLine)
          THEN line_matches(FinalLine, Separators + 1)
          ELSE <<>>

\* C10: in both scanning strategies a final line without a trailing separator
\* is scanned and its matches carry the last line number; a file that ends with
\* a separator yields no extra final line.
C10_FinalLineNumbered ==
    /\ bpc = "done" => FinalLineScanned(all_matches)
    /\ mmap_result # None => FinalLineScanned(mmap_result[1])

\* C11 asks of a Match that its offsets lie within its content
WithinContent(m) == m.start <= m.end /\ m.end <= Len(m.content)

\* C11 asks of the Matches of a scan, moreover, that the content is a whole
\* line of the file, cut at the separators, and the line number at least 1
ScanMatches(result, f) ==
    \A i \in 1..Len(result) :
        /\ WithinContent(result[i])
        /\ result[i].line >= 1
        /\ \E l \in 1..Len(lines_at(f, 0)) :
              result[i].content \in {lines_at(f, 0)[l].text,
                                     lines_at(f, 0)[l].text \o <<CR>>}

\* C11: every Match that find_matches returns, on any tier, and every Match
\* that a scan of a file returns has start <= end <= length of its content;
\* a Match of a scan holds a whole line of the file and a line number >= 1.
C11_MatchWithinContent ==
    /\ matches # None => \A i \in 1..Len(matches[1]) : WithinContent(matches[1][i])
    /\ ScanMatches(all_matches, file)
    /\ mmap_result # None => ScanMatches(mmap_result[1], file)

\* The part of C11 about the Matches of a scan
C11_ScanMatchesWithinLine ==
    /\ ScanMatches(all_matches, file)
    /\ mmap_result # None => ScanMatches(mmap_result[1], file)

\* What C19 asks for line n of the file: its matches, numbered n, if it is
\* text, and nothing if it is not
LineExpected(n) ==
    IF from_utf8_ok(FileLines[n].text) THEN line_matches(FileLines[n].text, n) ELSE <<>>

\* The same for the first n lines, in the order of the file
RECURSIVE LinesExpected(_)
LinesExpected(n) == IF n = 0 THEN <<>> ELSE LinesExpected(n - 1) \o LineExpected(n)

\* The number of complete lines in what the loop has dealt with: the bytes
\* read that are not in the carryover
LinesDone ==
    Cardinality({i \in 1..(roff - Len(carryover)) : file[i] = NL})

\* C19: in the chunked buffered scan the matches found are, after every turn
\* of the loop, those of the complete lines dealt with so far, line by line in
\* the order of the file and each numbered by the place of its line in the
\* file, and at the end those of all the lines; a line that is not text has
\* none and takes nothing from the other lines nor moves their numbers.
C19_LinesMatchedAndNumbered ==
    /\ bpc = "reading" => all_matches = LinesExpected(LinesDone)
    /\ bpc = "done" => all_matches = LinesExpected(Len(FileLines))

\* C19 for the files that are text throughout
C19_DecodableFiles == from_utf8_ok(file) => C19_LinesMatchedAndNumbered

-----------------------------------------------------------------------------
(* crates/ignore: Ignore *)

(* Paths are sequences of components relative to the root of the Ignore, the
   directory the search starts from, which is <<>>; a component and a rule
   are texts. The tree:
       k   dk   d/k   .git/k                                              *)
nK == <<"k">>
nD == <<"d">>
nDK == <<"d", "k">>
nGit == <<".", "g", "i", "t">>

TreeDirs == {<<>>, <<nD>>}
TreeFiles == {<<nK>>, <<nDK>>, <<nD, nK>>}

\* The lines a .gitignore is made of:  k  !k  d/  d*  d/k  and a comment
RuleLines == {<<"k">>, <<"!", "k">>, <<"d", "/">>, <<"d", "*">>,
              <<"d", "/", "k">>, <<" ", "#">>}

\* The .gitignore of a directory: absent, present but unreadable, or its lines
Absent == [state |-> "absent", lines |-> <<>>]
Unreadable == [state |-> "unreadable", lines |-> <<>>]
Readable(ls) == [state |-> "ok", lines |-> ls]

\* Path::is_file, Path::parent
is_file(path) == path \in TreeFiles
parent(path) == SubSeq(path, 1, Len(path) - 1)

\* Path::starts_with, Path::strip_prefix (on components)
path_starts_with(path, base) ==
    Len(base) <= Len(path) /\ SubSeq(path, 1, Len(base)) = base
path_strip_prefix(path, base) == SubSeq(path, Len(base) + 1, Len(path))

\* to_string_lossy: the components joined by /
RECURSIVE path_str(_)
path_str(path) ==
    IF path = <<>> THEN <<>>
    ELSE IF Len(path) = 1 THEN path[1]
    ELSE path[1] \o <<"/">> \o path_str(Tail(path))

\* str::starts_with, str::ends_with
starts_with(text, prefix) ==
    Len(prefix) <= Len(text) /\ SubSeq(text, 1, Len(prefix)) = prefix
ends_with(text, suffix) ==
    Len(suffix) <= Len(text)
    /\ SubSeq(text, Len(text) - Len(suffix) + 1, Len(text)) = suffix

\* str::trim, str::trim_end_matches('/')
RECURSIVE trim_start(_)
trim_start(text) ==
    IF text # <<>> /\ Head(text) = " " THEN trim_start(Tail(text)) ELSE text

RECURSIVE trim_end_matches(_, _)
trim_end_matches(text, c) ==
    IF text # <<>> /\ text[Len(text)] = c
    THEN trim_end_matches(SubSeq(text, 1, Len(text) - 1), c)
    ELSE text

trim(text) == trim_end_matches(trim_start(text), " ")

\* Path::new(relative_path).file_name(): the text after the last /
file_name(text) ==
    LET slashes == {i \in 1..Len(text) : text[i] = "/"}
    IN  IF text = <<>> THEN None
        ELSE IF slashes = {} THEN Some(text)
        ELSE Some(SubSeq(text, (CHOOSE i \in slashes : \A j \in slashes : j <= i) + 1,
                         Len(text)))

\* load_gitignore_for_dir, lines 62-81: the Pattern of one line, if it has one
parse_rule(is_negation, rule) ==
    IF rule = <<>> THEN <<>>
    ELSE <<[rule |-> rule, is_negation |-> is_negation,
            is_directory |-> ends_with(rule, <<"/">>)]>>

parse_trimmed(line) ==
    IF line = <<>> \/ starts_with(line, <<"#">>) THEN <<>>
    ELSE IF starts_with(line, <<"!">>) THEN parse_rule(TRUE, trim(Tail(line)))
    ELSE parse_rule(FALSE, line)

RECURSIVE parse_lines(_)
parse_lines(ls) ==
    IF ls = <<>> THEN <<>>
    ELSE parse_trimmed(trim(Head(ls))) \o parse_lines(Tail(ls))

IgnoreRules(patterns, dir) == [patterns |-> patterns, gitignore_dir |-> dir]

\* load_gitignore_for_dir without the cache check of lines 52-54
load_without_cache_check(c, dsk, dir) ==
    IF dsk[dir].state = "unreadable" THEN [ok |-> FALSE, cache |-> c]
    ELSE [ok |-> TRUE,
          cache |-> (dir :> IgnoreRules(parse_lines(dsk[dir].lines), dir)) @@ c]

\* Ignore::load_gitignore_for_dir on the cache c with the disk dsk: whether it
\* returns Ok, and the cache after it
load_gitignore_for_dir(c, dsk, dir) ==
    IF dir \in DOMAIN c THEN [ok |-> TRUE, cache |-> c]
    ELSE IF dsk[dir].state = "unreadable" THEN [ok |-> FALSE, cache |-> c]
    ELSE [ok |-> TRUE,
          cache |-> (dir :> IgnoreRules(parse_lines(dsk[dir].lines), dir)) @@ c]

\* Ignore::match_pattern
match_directory(dir_pattern, relative_path) ==
    \/ Contains(relative_path, dir_pattern \o <<"/">>)
    \/ starts_with(relative_path, dir_pattern)

match_wildcard(pat, relative_path) ==
    IF pat = <<"*">> THEN ~Contains(relative_path, <<"/">>)
    ELSE IF starts_with(pat, <<"*", ".">>)
    THEN ends_with(relative_path, SubSeq(pat, 3, Len(pat)))
    ELSE IF ends_with(pat, <<"*">>)
    THEN starts_with(relative_path, SubSeq(pat, 1, Len(pat) - 1))
    ELSE FALSE

match_pattern(pat, relative_path, is_directory) ==
    IF pat = relative_path THEN TRUE
    ELSE IF is_directory THEN match_directory(trim_end_matches(pat, "/"), relative_path)
    ELSE IF Contains(pat, <<"*">>) THEN match_wildcard(pat, relative_path)
    ELSE IF ~Contains(pat, <<"/">>) THEN file_name(relative_path) = Some(pat)
    ELSE Contains(relative_path, pat)

\* find_gitignore_chain, lines 113-125: from the directory up to the root
RECURSIVE dirs_up(_, _)
dirs_up(dir, root) ==
    IF dir = root \/ dir = <<>> THEN <<dir>>
    ELSE IF path_starts_with(parent(dir), root)
    THEN <<dir>> \o dirs_up(parent(dir), root)
    ELSE <<dir>>

\* line 128: dirs.reverse()
reverse(q) == [i \in 1..Len(q) |-> q[Len(q) + 1 - i]]

\* lines 102-111: the directory the chain ends at
chain_end(path, root) ==
    IF ~path_starts_with(IF is_file(path) THEN parent(path) ELSE path, root) THEN root
    ELSE IF is_file(path) THEN parent(path)
    ELSE path

\* lines 102-128: the directories of the chain of a path, root first
chain_dirs(path, root) == reverse(dirs_up(chain_end(path, root), root))

\* lines 131-136: load each directory in turn; the first failure ends the call
\* with an error, the directories loaded before it stay in the cache
load_next(r, dsk, dir) ==
    IF r.ok THEN load_gitignore_for_dir(r.cache, dsk, dir) ELSE r

RECURSIVE load_chain(_, _, _)
load_chain(c, dsk, dirs) ==
    IF dirs = <<>> THEN [ok |-> TRUE, cache |-> c]
    ELSE load_next(load_chain(c, dsk, SubSeq(dirs, 1, Len(dirs) - 1)), dsk,
                   dirs[Len(dirs)])

\* should_ignore, lines 171-181: the rules of one directory applied in order
apply_rule(state, pat, rel) ==
    IF match_pattern(pat.rule, rel, pat.is_directory) THEN ~pat.is_negation ELSE state

RECURSIVE apply_rules(_, _, _)
apply_rules(state, patterns, rel) ==
    IF patterns = <<>> THEN state
    ELSE apply_rule(apply_rules(state, SubSeq(patterns, 1, Len(patterns) - 1), rel),
                    patterns[Len(patterns)], rel)

\* lines 158-183: the directories of the chain applied in order, to the path
\* relative to the root and then to each directory
apply_dir(state, c, dir_rel, dir, relative_path) ==
    IF dir \in DOMAIN c /\ path_starts_with(relative_path, dir_rel)
    THEN apply_rules(state, c[dir].patterns,
                     path_str(path_strip_prefix(relative_path, dir_rel)))
    ELSE state

RECURSIVE apply_chain(_, _, _, _)
apply_chain(c, chain, root, path) ==
    IF chain = <<>> THEN FALSE
    ELSE apply_dir(apply_chain(c, SubSeq(chain, 1, Len(chain) - 1), root, path), c,
                   path_strip_prefix(chain[Len(chain)], root), chain[Len(chain)],
                   path_strip_prefix(path, root))

\* Ignore::should_ignore: the answer, given what loading the chain returned
answer(loaded, root, path) ==
    IF ~loaded.ok THEN FALSE
    ELSE IF ~path_starts_with(path, root) THEN FALSE
    ELSE apply_chain(loaded.cache, chain_dirs(path, root), root, path)

\* Ignore::should_ignore: what find_gitignore_chain returns, the cache after it
\* included
find_gitignore_chain(c, dsk, root, path) == load_chain(c, dsk, chain_dirs(path, root))

\* Ignore::from_gitignore(root).unwrap_or_else(|_| Ignore::new(root)): the
\* cache of a new Ignore
from_gitignore(dsk, root) ==
    IF dsk[root].state # "absent" THEN load_gitignore_for_dir(<<>>, dsk, root).cache
    ELSE <<>>

RootContents ==
    {Absent, Unreadable} \cup {Readable(ls) : ls \in SeqsUpTo(RuleLines, MaxRootRules)}
SubContents ==
    {Absent, Unreadable} \cup {Readable(ls) : ls \in SeqsUpTo(RuleLines, MaxSubRules)}

IgnoreInit ==
    /\ pattern = <<>> /\ regex = <<>> /\ literal = None /\ rare_byte = None
    /\ haystack = <<>> /\ matches = None /\ matched = None /\ panicked = FALSE
    /\ SearcherIdle
    /\ RunIdle
    /\ disk \in [TreeDirs -> RootContents \cup SubContents]
    /\ disk[<<>>] \in RootContents
    /\ disk[<<nD>>] \in SubContents
    /\ iroot = <<>>
    /\ cache = from_gitignore(disk, iroot)
    /\ ipath = <<>>
    /\ iresult = None

\* ignore.should_ignore(path) for a file of the tree
ShouldIgnore ==
    \E path \in TreeFiles :
        /\ ipath' = path
        /\ cache' = find_gitignore_chain(cache, disk, iroot, path).cache
        /\ iresult' = Some(answer(find_gitignore_chain(cache, disk, iroot, path),
                                  iroot, path))
        /\ UNCHANGED <<disk, iroot, not_ignore>>

IgnoreNext == ShouldIgnore

SpecIgnore == IgnoreInit /\ [][IgnoreNext]_vars

\* The same Ignore while the .gitignore files change on disk under it
\* (written, made unreadable, removed); ipath and iresult are then the last
\* call since the last change
EditContents ==
    {Absent, Unreadable, Readable(<< <<"k">> >>), Readable(<< <<"!", "k">> >>)}

IgnoreEditInit ==
    /\ pattern = <<>> /\ regex = <<>> /\ literal = None /\ rare_byte = None
    /\ haystack = <<>> /\ matches = None /\ matched = None /\ panicked = FALSE
    /\ SearcherIdle
    /\ RunIdle
    /\ disk \in [TreeDirs -> EditContents]
    /\ iroot = <<>>
    /\ cache = from_gitignore(disk, iroot)
    /\ ipath = <<>>
    /\ iresult = None

EditGitignore ==
    \E dir \in TreeDirs, content \in EditContents :
        /\ content # disk[dir]
        /\ disk' = [disk EXCEPT ![dir] = content]
        /\ ipath' = <<>>
        /\ iresult' = None
        /\ UNCHANGED <<cache, iroot, not_ignore>>

IgnoreEditNext == ShouldIgnore \/ EditGitignore

SpecIgnoreEdit == IgnoreEditInit /\ [][IgnoreEditNext]_vars

-----------------------------------------------------------------------------
(* Claims about the ignore rules *)

\* The rule set of a directory as its .gitignore states it; none when the
\* file is absent or cannot be read
RuleSet(dsk, dir) == IF dsk[dir].state = "ok" THEN parse_lines(dsk[dir].lines) ELSE <<>>

\* The directories of the path of a file, root first, and every rule of their
\* rule sets in that order, each with the path relative to its directory
Ancestors(path) == [i \in 1..Len(path) |-> SubSeq(path, 1, i - 1)]

RECURSIVE RulesAlong(_, _, _)
RulesAlong(dsk, dirs, path) ==
    IF dirs = <<>> THEN <<>>
    ELSE LET rs == RuleSet(dsk, Head(dirs))
             rel == path_str(SubSeq(path, Len(Head(dirs)) + 1, Len(path)))
         IN  [i \in 1..Len(rs) |-> [pat |-> rs[i], rel |-> rel]]
             \o RulesAlong(dsk, Tail(dirs), path)

\* The outcome of the last matching rule; FALSE when no rule matches
LastMatchingRule(dsk, path) ==
    LET all == RulesAlong(dsk, Ancestors(path), path)
        hits == {i \in 1..Len(all) :
                    match_pattern(all[i].pat.rule, all[i].rel, all[i].pat.is_directory)}
    IN  IF hits = {} THEN FALSE
        ELSE ~all[CHOOSE i \in hits : \A j \in hits : j <= i].pat.is_negation

\* C4: should_ignore(path) is the outcome of the last matching rule when the
\* rule sets of the directories of the path are applied root to leaf, each in
\* file order; FALSE when no rule matches.
C4_LastMatchingRuleWins ==
    iresult # None => iresult[1] = LastMatchingRule(disk, ipath)

\* C4 where every .gitignore of the chain can be read
C4_WithReadableChain ==
    (iresult # None /\ \A d \in TreeDirs : disk[d].state # "unreadable")
        => iresult[1] = LastMatchingRule(disk, ipath)

\* The disk with every unreadable .gitignore replaced by an empty one
AsIfEmpty(dsk) ==
    [d \in DOMAIN dsk |-> IF dsk[d].state = "unreadable" THEN Readable(<<>>) ELSE dsk[d]]

\* should_ignore(path) of a new Ignore on the disk dsk
FreshAnswer(dsk, path) ==
    answer(find_gitignore_chain(from_gitignore(dsk, iroot), dsk, iroot, path), iroot, path)

\* C7: with a .gitignore that exists but cannot be read, should_ignore
\* answers for every path as if that directory had an empty rule set.
C7_UnreadableAsEmpty ==
    (iresult # None /\ \E d \in TreeDirs : disk[d].state = "unreadable")
        => iresult[1] = FreshAnswer(AsIfEmpty(disk), ipath)

\* C8: a cache entry, once made, is never removed, reloaded or changed,
\* whatever happens to the file on disk.
C8_CacheWriteOnce ==
    [][\A d \in DOMAIN cache : d \in DOMAIN cache' /\ cache'[d] = cache[d]]_vars

\* should_ignore has answered for a path under a directory whose cached rules
\* are no longer those of its .gitignore on disk
C8_Witness ==
    /\ iresult # None
    /\ \E d \in DOMAIN cache :
          /\ path_starts_with(ipath, d)
          /\ cache[d].patterns # RuleSet(disk, d)

\* What C20 lets a directory-scoped rule match: the path that is the rule
\* text, a path that starts with it, separator included, and a path that
\* contains it with something after it
DirectoryScoped(rule, rel) ==
    \/ rel = rule
    \/ starts_with(rel, rule)
    \/ \E i \in 1..(Len(rel) - Len(rule)) : SubSeq(rel, i, i + Len(rule) - 1) = rule

\* C20: a directory-scoped rule that should_ignore found to match the path
\* matches it in one of the ways of DirectoryScoped; a path that has only the
\* first characters of the directory name is not matched.
C20_DirectoryRuleNeedsSeparator ==
    iresult # None =>
        \A d \in {e \in DOMAIN cache : path_starts_with(ipath, e)} :
            \A i \in 1..Len(cache[d].patterns) :
                (/\ cache[d].patterns[i].is_directory
                 /\ match_pattern(cache[d].patterns[i].rule,
                                  path_str(path_strip_prefix(ipath, d)), TRUE))
                    => DirectoryScoped(cache[d].patterns[i].rule,
                                       path_str(path_strip_prefix(ipath, d)))

-----------------------------------------------------------------------------
(* crates/core: run_app, process_paths, handle_single_path and the two walks

   The tree of the ignore resolver, with a .git directory next to it and a
   directory whose name ends in .git:
       k   dk   d/k   d.git/k   .git/k                                    *)

NumWorkers == 2     \* threads of the pool of the parallel walk
Workers == 1..NumWorkers

nX == <<"x">>       \* a path that names nothing on disk
nDGit == <<"d", ".", "g", "i", "t">>

\* WalkDir::new(<<>>).follow_links(false): the entries in the order of the walk
WalkEntries ==
    << [path |-> <<>>, is_file |-> FALSE],
       [path |-> <<nK>>, is_file |-> TRUE],
       [path |-> <<nD>>, is_file |-> FALSE],
       [path |-> <<nD, nK>>, is_file |-> TRUE],
       [path |-> <<nDK>>, is_file |-> TRUE],
       [path |-> <<nDGit>>, is_file |-> FALSE],
       [path |-> <<nDGit, nK>>, is_file |-> TRUE],
       [path |-> <<nGit>>, is_file |-> FALSE],
       [path |-> <<nGit, nK>>, is_file |-> TRUE] >>

\* What the files hold
FileContent ==
    (<<nK>> :> <<"a", NL, "a", "b">>) @@ (<<nDK>> :> <<"b", NL>>)
    @@ (<<nD, nK>> :> <<"a", "b", NL>>) @@ (<<nGit, nK>> :> <<"a", NL>>)
    @@ (<<nDGit, nK>> :> <<"a", NL>>)

\* Path::exists
exists(path) == \E i \in 1..Len(WalkEntries) : WalkEntries[i].path = path

\* The items the iterator of WalkDir::new(root) yields: Ok(entry) for what is
\* under root, and an Err after a directory that cannot be read, whose entries
\* are then not yielded
walk_item(e, root, werr) ==
    IF ~path_starts_with(e.path, root) THEN <<>>
    ELSE IF \E d \in werr : d # e.path /\ path_starts_with(e.path, d) THEN <<>>
    ELSE IF e.path \in werr
    THEN <<[ok |-> TRUE, path |-> e.path, is_file |-> e.is_file],
           [ok |-> FALSE, path |-> e.path, is_file |-> FALSE]>>
    ELSE <<[ok |-> TRUE, path |-> e.path, is_file |-> e.is_file]>>

RECURSIVE walk_from(_, _, _)
walk_from(entries, root, werr) ==
    IF entries = <<>> THEN <<>>
    ELSE walk_item(Head(entries), root, werr) \o walk_from(Tail(entries), root, werr)

WalkDir(root) == walk_from(WalkEntries, root, walk_errors)

\* path_str.contains(".git/")
git_skipped(path) == Contains(path_str(path), nGit \o <<"/">>)

\* The matches of a file written last first
records_reversed(path, ms) ==
    [i \in 1..Len(ms) |->
        [path |-> path, line |-> ms[Len(ms) + 1 - i].line,
         content |-> ms[Len(ms) + 1 - i].content]]

\* What is written to standard output for the matches of a file: print_match
records(path, ms) ==
    [i \in 1..Len(ms) |-> [path |-> path, line |-> ms[i].line, content |-> ms[i].content]]

\* The log: should_ignore answered `arg` for the path ("check"), search_file
\* was called on it and returned Ok or not ("scan"), a record of its line `arg`
\* was written ("emit"); each with the root argument in hand
Ev(kind, path, arg) == [kind |-> kind, root |-> ri, path |-> path, arg |-> arg]

emits(path, recs) == [i \in 1..Len(recs) |-> Ev("emit", path, recs[i].line)]

\* search_file returned an error
scan_failed(path, ignored) ==
    [failed |-> TRUE, records |-> <<>>,
     events |-> <<Ev("check", path, ignored), Ev("scan", path, FALSE)>>]

\* search_file returned matches and each was printed
scanned(path, recs, ignored) ==
    [failed |-> FALSE, records |-> recs,
     events |-> <<Ev("check", path, ignored), Ev("scan", path, TRUE)>> \o emits(path, recs)]

\* should_ignore returned true: return Ok(()) / continue
not_scanned(path) ==
    [failed |-> FALSE, records |-> <<>>, events |-> <<Ev("check", path, TRUE)>>]

\* searcher.search_file(path) and the loop over print_match
search_file_and_print(path, ignored) ==
    IF path \in unreadable THEN scan_failed(path, ignored)
    ELSE TheOne({scanned(path, records(path, ms), ignored) :
                    ms \in {search_file(FileContent[path])}})

\* A file is searched whatever should_ignore answered
search_without_check(path, ignored) == search_file_and_print(path, ignored)

\* handle_single_path lines 83-95, walk_directory_single_thread lines 130-151:
\* the ignore check, then the search
check_and_search(path, ignored) ==
    IF ignored THEN not_scanned(path) ELSE search_file_and_print(path, ignored)

\* The Err the run returns: what it says and the path it names
Error(message, path) == [message |-> message, path |-> path]

IdleWorker == [pc |-> "idle", path |-> <<>>, recs |-> <<>>, k |-> 0]

\* The runs: a pure literal, and a pattern with two bytes as rare as each other
RunPatterns == {<<"a">>, <<"a", "b", "*">>}

RootArgs ==
    { << <<>> >>, << <<nD, nK>> >>, << <<nK>>, <<>> >>, << <<nX>>, <<>> >>,
      << <<nD>>, <<nX>> >>, << <<>>, <<nK>> >> }

RunDisks ==
    { (<<>> :> Absent) @@ (<<nD>> :> Absent),
      (<<>> :> Readable(<< <<"d", "/">> >>)) @@ (<<nD>> :> Readable(<< <<"!", "k">> >>)),
      (<<>> :> Readable(<< <<"k">> >>)) @@ (<<nD>> :> Unreadable),
      (<<>> :> Unreadable) @@ (<<nD>> :> Readable(<< <<"k">> >>)) }

Faults ==
    { [unreadable |-> {}, walk_errors |-> {}],
      [unreadable |-> {<<nK>>}, walk_errors |-> {}],
      [unreadable |-> {<<nD, nK>>}, walk_errors |-> {}],
      [unreadable |-> {}, walk_errors |-> {<<nD>>}] }

\* run_app up to the call of process_paths
RunStart ==
    /\ regex = regex_new(pattern)
    /\ literal = extract_literals(pattern)
    /\ rare_byte \in select_rare_byte(pattern)
    /\ haystack = <<>> /\ matches = None /\ matched = None /\ panicked = FALSE
    /\ SearcherIdle
    /\ iroot = <<>> /\ cache = <<>> /\ ipath = <<>> /\ iresult = None
    /\ ri = 1 /\ rpc = "next" /\ wpos = 0 /\ files = <<>> /\ taken = {}
    /\ workers = [w \in Workers |-> IdleWorker]
    /\ printer = 0 /\ output = <<>> /\ status = "running" /\ events = <<>>
    /\ failure = None
    /\ prev = None

RunInit ==
    /\ pattern \in RunPatterns
    /\ disk \in RunDisks
    /\ roots \in RootArgs
    /\ use_parallel \in BOOLEAN
    /\ \E f \in Faults : unreadable = f.unreadable /\ walk_errors = f.walk_errors
    /\ RunStart

\* What no step of a run changes
fixed == <<mvars, svars, disk, ipath, iresult, args, prev>>

\* A root argument that does not exist is passed over
SkipMissingPath ==
    /\ rpc = "next" /\ ri <= Len(roots)
    /\ ~exists(roots[ri])
    /\ ri' = ri + 1
    /\ UNCHANGED <<iroot, cache, rpc, wpos, files, taken, workers, printer, output, status,
                   failure, events, fixed>>

\* handle_single_path, lines 68-70: the path does not exist
HandleMissingPath ==
    /\ rpc = "next" /\ ri <= Len(roots)
    /\ ~exists(roots[ri])
    /\ status' = "error"
    /\ failure' = Some(Error("File or directory not found", roots[ri]))
    /\ rpc' = "done"
    /\ UNCHANGED <<iroot, cache, ri, wpos, files, taken, workers, printer, output, events,
                   fixed>>

\* lines 87-94: the outcome of the file given as a root argument
single_file_done(o) ==
    /\ output' = output \o o.records
    /\ events' = events \o o.events
    /\ status' = IF o.failed THEN "error" ELSE status
    /\ failure' = IF o.failed THEN Some(Error("Failed to read file", roots[ri])) ELSE failure
    /\ rpc' = IF o.failed THEN "done" ELSE rpc
    /\ ri' = IF o.failed THEN ri ELSE ri + 1

single_file(path, root, chain) ==
    /\ cache' = chain.cache
    /\ \E o \in {check_and_search(path, answer(chain, root, path))} : single_file_done(o)

\* handle_single_path for a root argument that is a file
HandleFilePath ==
    /\ rpc = "next" /\ ri <= Len(roots)
    /\ exists(roots[ri]) /\ is_file(roots[ri])
    /\ iroot' = parent(roots[ri])
    /\ \E chain \in {find_gitignore_chain(from_gitignore(disk, parent(roots[ri])), disk,
                                           parent(roots[ri]), roots[ri])} :
          single_file(roots[ri], parent(roots[ri]), chain)
    /\ UNCHANGED <<wpos, files, taken, workers, printer, fixed>>

\* handle_single_path for a root argument that is a directory, up to the walk
HandleDirPath ==
    /\ rpc = "next" /\ ri <= Len(roots)
    /\ exists(roots[ri]) /\ ~is_file(roots[ri])
    /\ iroot' = roots[ri]
    /\ cache' = from_gitignore(disk, roots[ri])
    /\ rpc' = IF use_parallel THEN "collect" ELSE "walk"
    /\ wpos' = 1
    /\ UNCHANGED <<ri, files, taken, workers, printer, output, status, failure, events, fixed>>

\* The records of the file are written in front of what was written before
walked_file_prepended(o) ==
    /\ output' = o.records \o output
    /\ events' = o.events \o events
    /\ wpos' = wpos + 1
    /\ UNCHANGED <<status, failure, rpc>>

\* A file of the walk that cannot be read ends the run, as `?` would
walked_file_or_fail(o) ==
    /\ output' = output \o o.records
    /\ events' = events \o o.events
    /\ wpos' = wpos + 1
    /\ status' = IF o.failed THEN "error" ELSE status
    /\ failure' = IF o.failed THEN Some(Error("Failed to read file", roots[ri])) ELSE failure
    /\ rpc' = IF o.failed THEN "done" ELSE rpc

\* walk_directory_single_thread, lines 130-151: a file entry
walked_file_done(o) ==
    /\ output' = output \o o.records
    /\ events' = events \o o.events
    /\ wpos' = wpos + 1
    /\ UNCHANGED <<status, failure, rpc>>

walked_file(path, chain) ==
    /\ cache' = chain.cache
    /\ \E o \in {check_and_search(path, answer(chain, iroot, path))} : walked_file_done(o)

\* An entry that cannot be inspected is passed over and the walk goes on
walked_entry_or_skip(item) ==
    IF ~item.ok \/ git_skipped(item.path) \/ ~item.is_file
    THEN /\ wpos' = wpos + 1
         /\ UNCHANGED <<cache, status, failure, rpc, output, events>>
    ELSE \E chain \in {find_gitignore_chain(cache, disk, iroot, item.path)} :
            walked_file(item.path, chain)

walked_entry(item) ==
    IF ~item.ok
    THEN /\ status' = "error"
         /\ failure' = Some(Error("walkdir", item.path))
         /\ rpc' = "done"
         /\ UNCHANGED <<cache, wpos, output, events>>
    ELSE IF git_skipped(item.path) \/ ~item.is_file
    THEN /\ wpos' = wpos + 1
         /\ UNCHANGED <<cache, status, failure, rpc, output, events>>
    ELSE \E chain \in {find_gitignore_chain(cache, disk, iroot, item.path)} :
            walked_file(item.path, chain)

\* One turn of the loop of walk_directory_single_thread
WalkEntry ==
    /\ rpc = "walk" /\ wpos <= Len(WalkDir(iroot))
    /\ \E item \in {WalkDir(iroot)[wpos]} : walked_entry(item)
    /\ UNCHANGED <<iroot, ri, files, taken, workers, printer, fixed>>

\* The walk is over: walk_directory_single_thread and handle_single_path return
WalkEnd ==
    /\ rpc = "walk" /\ wpos > Len(WalkDir(iroot))
    /\ rpc' = "next"
    /\ ri' = ri + 1
    /\ wpos' = 0
    /\ UNCHANGED <<iroot, cache, files, taken, workers, printer, output, status, failure, events,
                   fixed>>

\* walk_directory_parallel, lines 181-196: a file entry of the filter
collected_file(path, chain) ==
    /\ cache' = chain.cache
    /\ \E ignored \in {answer(chain, iroot, path)} :
          /\ events' = Append(events, Ev("check", path, ignored))
          /\ files' = IF ignored THEN files ELSE Append(files, path)

collected_entry(item) ==
    IF ~item.ok \/ git_skipped(item.path) \/ ~item.is_file
    THEN UNCHANGED <<cache, events, files>>
    ELSE \E chain \in {find_gitignore_chain(cache, disk, iroot, item.path)} :
            collected_file(item.path, chain)

\* One entry of phase 1 of walk_directory_parallel
CollectEntry ==
    /\ rpc = "collect" /\ wpos <= Len(WalkDir(iroot))
    /\ \E item \in {WalkDir(iroot)[wpos]} : collected_entry(item)
    /\ wpos' = wpos + 1
    /\ UNCHANGED <<iroot, ri, rpc, taken, workers, printer, output, status, failure, fixed>>

\* Phase 1 is over: files is collected and par_iter starts
CollectEnd ==
    /\ rpc = "collect" /\ wpos > Len(WalkDir(iroot))
    /\ rpc' = "workers"
    /\ wpos' = 0
    /\ UNCHANGED <<iroot, cache, ri, files, taken, workers, printer, output, status, failure, events,
                   fixed>>

\* lines 203-207: a worker takes a file of the list that no worker took and
\* calls search_file on it
WorkerScan(w) ==
    /\ rpc = "workers" /\ workers[w].pc = "idle"
    /\ \E i \in (1..Len(files)) \ taken :
        /\ taken' = taken \cup {i}
        /\ events' = Append(events, Ev("scan", files[i], files[i] \notin unreadable))
        /\ \/ /\ files[i] \in unreadable
              /\ workers' = workers
           \/ /\ files[i] \notin unreadable
              /\ \E ms \in {search_file(FileContent[files[i]])} :
                    workers' = [workers EXCEPT ![w] =
                                   [pc |-> "lock", path |-> files[i], k |-> 1,
                                    recs |-> records(files[i], ms)]]
    /\ UNCHANGED <<iroot, cache, ri, rpc, wpos, files, printer, output, status, failure, fixed>>

\* The worker goes on to print without the printer lock being free
WorkerLockAnyway(w) ==
    /\ rpc = "workers" /\ workers[w].pc = "lock"
    /\ printer' = w
    /\ workers' = [workers EXCEPT ![w].pc = "print"]
    /\ UNCHANGED <<iroot, cache, ri, rpc, wpos, files, taken, output, status, failure, events, fixed>>

\* line 210: printer.lock()
WorkerLock(w) ==
    /\ rpc = "workers" /\ workers[w].pc = "lock"
    /\ printer = 0
    /\ printer' = w
    /\ workers' = [workers EXCEPT ![w].pc = "print"]
    /\ UNCHANGED <<iroot, cache, ri, rpc, wpos, files, taken, output, status, failure, events, fixed>>

\* lines 211-213, print_match lines 16-19: print_match is called for the next
\* match and begins to write its record to standard output
WorkerPrint(w) ==
    /\ rpc = "workers" /\ workers[w].pc = "print"
    /\ workers[w].k <= Len(workers[w].recs)
    /\ workers' = [workers EXCEPT ![w].pc = "write"]
    /\ UNCHANGED <<iroot, cache, ri, rpc, wpos, files, taken, printer, output, status, failure,
                   events, fixed>>

\* print_match lines 19-26: the record is written to its end and print_match
\* returns
WorkerWriteln(w) ==
    /\ rpc = "workers" /\ workers[w].pc = "write"
    /\ output' = Append(output, workers[w].recs[workers[w].k])
    /\ events' = Append(events, Ev("emit", workers[w].path, workers[w].recs[workers[w].k].line))
    /\ workers' = [workers EXCEPT ![w].k = @ + 1, ![w].pc = "print"]
    /\ UNCHANGED <<iroot, cache, ri, rpc, wpos, files, taken, printer, status, failure, fixed>>

\* The closure returns and the printer stays locked
WorkerKeepsLock(w) ==
    /\ rpc = "workers" /\ workers[w].pc = "print"
    /\ workers[w].k > Len(workers[w].recs)
    /\ workers' = [workers EXCEPT ![w] = IdleWorker]
    /\ UNCHANGED <<iroot, cache, ri, rpc, wpos, files, taken, printer, output, status,
                   failure, events, fixed>>

\* line 214: the guard is dropped, the closure returns
WorkerUnlock(w) ==
    /\ rpc = "workers" /\ workers[w].pc = "print"
    /\ workers[w].k > Len(workers[w].recs)
    /\ printer' = 0
    /\ workers' = [workers EXCEPT ![w] = IdleWorker]
    /\ UNCHANGED <<iroot, cache, ri, rpc, wpos, files, taken, output, status, failure, events, fixed>>

\* for_each returns when every file was handled: walk_directory_parallel and
\* handle_single_path return
Join ==
    /\ rpc = "workers"
    /\ taken = 1..Len(files)
    /\ \A w \in Workers : workers[w].pc = "idle"
    /\ rpc' = "next"
    /\ ri' = ri + 1
    /\ files' = <<>>
    /\ taken' = {}
    /\ UNCHANGED <<iroot, cache, wpos, workers, printer, output, status, failure, events, fixed>>

\* process_paths returns Ok(()) after the last root
Finish ==
    /\ rpc = "next" /\ ri > Len(roots)
    /\ status' = "ok"
    /\ failure' = failure
    /\ rpc' = "done"
    /\ UNCHANGED <<iroot, cache, ri, wpos, files, taken, workers, printer, output, events,
                   fixed>>

RunNext ==
    \/ HandleMissingPath
    \/ HandleFilePath
    \/ HandleDirPath
    \/ WalkEntry
    \/ WalkEnd
    \/ CollectEntry
    \/ CollectEnd
    \/ \E w \in Workers : WorkerScan(w)
    \/ \E w \in Workers : WorkerLock(w)
    \/ \E w \in Workers : WorkerPrint(w)
    \/ \E w \in Workers : WorkerWriteln(w)
    \/ \E w \in Workers : WorkerUnlock(w)
    \/ Join
    \/ Finish

SpecRun == RunInit /\ [][RunNext]_vars

\* The steps of the main thread and of a thread of the pool; each thread that
\* can take a step is scheduled in the end
MainStep ==
    \/ HandleMissingPath \/ HandleFilePath \/ HandleDirPath
    \/ WalkEntry \/ WalkEnd \/ CollectEntry \/ CollectEnd \/ Join \/ Finish

WorkerStep(w) ==
    WorkerScan(w) \/ WorkerLock(w) \/ WorkerPrint(w) \/ WorkerWriteln(w) \/ WorkerUnlock(w)

\* The runs whose scheduling is examined: one pattern, a directory walked
\* or a file and a path that does not exist
FairInit ==
    /\ pattern = <<"a">>
    /\ disk \in RunDisks
    /\ roots \in { << <<>> >>, << <<nK>>, <<nX>> >> }
    /\ use_parallel \in BOOLEAN
    /\ \E f \in Faults : unreadable = f.unreadable /\ walk_errors = f.walk_errors
    /\ RunStart

SpecRunFair ==
    /\ FairInit /\ [][RunNext]_vars
    /\ WF_vars(MainStep)
    /\ \A w \in Workers : WF_vars(WorkerStep(w))

\* The same command run a second time on the same tree: a new process, so a
\* new matcher, a new Ignore and an empty standard output; what the first run
\* wrote and returned is kept in prev
Rerun ==
    /\ rpc = "done" /\ prev = None
    /\ prev' = Some([output |-> output, status |-> status])
    /\ rare_byte' \in select_rare_byte(pattern)
    /\ iroot' = <<>> /\ cache' = <<>>
    /\ ri' = 1 /\ rpc' = "next" /\ wpos' = 0 /\ files' = <<>> /\ taken' = {}
    /\ workers' = [w \in Workers |-> IdleWorker]
    /\ printer' = 0 /\ output' = <<>> /\ status' = "running" /\ events' = <<>>
    /\ failure' = None
    /\ UNCHANGED <<pattern, regex, literal, haystack, matches, matched, panicked, svars, disk, ipath,
                   iresult, args>>

RerunNext == RunNext \/ Rerun

SpecRerun == RunInit /\ [][RerunNext]_vars

\* The files search_file was called on, each with the root argument in hand
\* and whether it was read
ScannedFiles ==
    {[root |-> events[i].root, path |-> events[i].path, ok |-> events[i].arg] :
        i \in {j \in 1..Len(events) : events[j].kind = "scan"}}

\* The same command run a second time on the same tree in the other mode (-j 1
\* against the default): a new process as in Rerun; prev keeps what the first
\* run wrote, returned and scanned, and the rare byte of its matcher
RunOtherMode ==
    /\ rpc = "done" /\ prev = None
    /\ prev' = Some([output |-> output, status |-> status, scanned |-> ScannedFiles,
                     rare_byte |-> rare_byte])
    /\ use_parallel' = ~use_parallel
    /\ rare_byte' \in select_rare_byte(pattern)
    /\ iroot' = <<>> /\ cache' = <<>>
    /\ ri' = 1 /\ rpc' = "next" /\ wpos' = 0 /\ files' = <<>> /\ taken' = {}
    /\ workers' = [w \in Workers |-> IdleWorker]
    /\ printer' = 0 /\ output' = <<>> /\ status' = "running" /\ events' = <<>>
    /\ failure' = None
    /\ UNCHANGED <<pattern, regex, literal, haystack, matches, matched, panicked, svars, disk, ipath,
                   iresult, roots, unreadable, walk_errors>>

ModesNext == RunNext \/ RunOtherMode

SpecModes == RunInit /\ [][ModesNext]_vars

-----------------------------------------------------------------------------
(* Claims about the application *)

Scans == {i \in 1..Len(events) : events[i].kind \in {"scan", "emit"}}

CheckedBefore(i, ignored) ==
    \E j \in 1..(i - 1) :
        /\ events[j].kind = "check"
        /\ events[j].root = events[i].root
        /\ events[j].path = events[i].path
        /\ events[j].arg = ignored

\* C5: in every mode, when search_file is called on a file or a record of it is
\* written, should_ignore has returned false for that file before, under the
\* same root argument, and has not returned true for it: an ignored file is
\* neither opened nor reported
C5_ScannedOnlyWhenNotIgnored ==
    \A i \in Scans : CheckedBefore(i, FALSE) /\ ~CheckedBefore(i, TRUE)

\* A parallel run that is over, in which a file was ignored and a record of
\* another was written
C5_Witness ==
    /\ rpc = "done" /\ status = "ok" /\ use_parallel
    /\ \E i \in 1..Len(events) : events[i].kind = "check" /\ events[i].arg
    /\ \E i \in 1..Len(events) : events[i].kind = "emit"

\* The place of a logged step in the enumeration: the root argument, then the
\* entry of the walk
WalkIndex(path) == CHOOSE i \in 1..Len(WalkEntries) : WalkEntries[i].path = path
Before(e, f) ==
    e.root < f.root \/ (e.root = f.root /\ WalkIndex(e.path) < WalkIndex(f.path))
SameFile(e, f) == e.root = f.root /\ e.path = f.path

EmitPaths == [i \in 1..Len(SelectSeq(events, LAMBDA e : e.kind = "emit")) |->
                SelectSeq(events, LAMBDA e : e.kind = "emit")[i].path]

\* C13: in sequential mode, of two steps that scan a file or write a record,
\* the later one is on the same file or on a file enumerated later, and a scan
\* is never the later one on the same file: a file is scanned once, its records
\* follow, and only then is the next file scanned; standard output holds the
\* records in that order.
C13_SequentialOrder ==
    ~use_parallel =>
        /\ \A i, j \in Scans :
              i < j => /\ SameFile(events[i], events[j]) \/ Before(events[i], events[j])
                       /\ events[j].kind = "scan" => Before(events[i], events[j])
        /\ EmitPaths = [i \in 1..Len(output) |-> output[i].path]

\* A sequential walk that is over and has written records of two files
C13_Witness ==
    /\ ~use_parallel /\ rpc = "done" /\ status = "ok"
    /\ \E i, j \in 1..Len(output) : output[i].path # output[j].path

\* C14: in every mode the records of one file, under one root argument, are
\* written in non-decreasing order of line number, and no two workers hold
\* the same file of the list.
C14_FileRecordsAscending ==
    /\ \A i, j \in 1..Len(events) :
          (i < j /\ events[i].kind = "emit" /\ events[j].kind = "emit"
           /\ SameFile(events[i], events[j])) => events[i].arg <= events[j].arg
    /\ \A v, w \in DOMAIN workers :
          (v # w /\ workers[v].pc # "idle" /\ workers[w].pc # "idle")
              => workers[v].path # workers[w].path

\* A parallel walk in which two workers hold files and records of two lines of
\* one file were written
C14_Witness ==
    /\ use_parallel
    /\ \E v, w \in DOMAIN workers :
          v # w /\ workers[v].pc # "idle" /\ workers[w].pc # "idle"
    /\ \E i, j \in 1..Len(events) :
          /\ i < j /\ events[i].kind = "emit" /\ events[j].kind = "emit"
          /\ SameFile(events[i], events[j]) /\ events[i].arg < events[j].arg

\* The line numbers of the records written for a file under a root argument,
\* and those of the Matches of a scan of the file
EmittedLines(r, path) ==
    [i \in 1..Len(SelectSeq(events, LAMBDA e : e.kind = "emit" /\ e.root = r /\ e.path = path))
        |-> SelectSeq(events, LAMBDA e : e.kind = "emit" /\ e.root = r /\ e.path = path)[i].arg]
ScanLines(ms) == [i \in 1..Len(ms) |-> ms[i].line]

ReadFailure(path) == Some(Error("Failed to read file", path))

\* C15: a file that cannot be read is, in a walk of either mode, skipped: no
\* record of it is written, the run does not fail for it, and when the run
\* has succeeded every file that was not ignored was scanned and, unless it
\* cannot be read, its records were written; given as a root argument, the
\* same file makes the run fail with an error that names it.
C15_UnreadableFileSkippedOrFatal ==
    /\ \A i, j \in 1..Len(events) :
          (events[i].kind = "scan" /\ ~events[i].arg /\ events[j].kind = "emit")
              => ~SameFile(events[i], events[j])
    /\ \A i \in 1..Len(events) :
          (events[i].kind = "scan" /\ ~events[i].arg)
              => (is_file(roots[events[i].root])
                    => status = "error" /\ failure = ReadFailure(events[i].path))
    /\ (failure # None /\ failure[1].message = "Failed to read file")
          => is_file(roots[ri]) /\ failure[1].path = roots[ri] /\ roots[ri] \in unreadable
    /\ (rpc = "done" /\ status = "ok") =>
          \A i \in 1..Len(events) :
              (events[i].kind = "check" /\ ~events[i].arg) =>
                  /\ \E j \in Scans : events[j].kind = "scan" /\ SameFile(events[i], events[j])
                  /\ events[i].path \notin unreadable =>
                        EmittedLines(events[i].root, events[i].path)
                            = ScanLines(search_file(FileContent[events[i].path]))

\* A run that walked a directory, skipped a file that cannot be read and wrote
\* the records of another, and then failed on that file as a root argument
C15_Witness ==
    /\ rpc = "done" /\ status = "error" /\ failure = ReadFailure(<<nK>>)
    /\ \E i \in 1..Len(events) :
          events[i].kind = "scan" /\ ~events[i].arg /\ events[i].root = 1
    /\ \E i \in 1..Len(events) : events[i].kind = "emit" /\ events[i].root = 1

\* The files a walk of root argument r yields and does not skip as part of .git
Yielded(r) ==
    {WalkDir(roots[r])[k].path : k \in {k \in 1..Len(WalkDir(roots[r])) :
        /\ WalkDir(roots[r])[k].ok /\ WalkDir(roots[r])[k].is_file
        /\ ~git_skipped(WalkDir(roots[r])[k].path)}}

\* File `path` of root argument r went through the ignore check and, if not
\* ignored, was scanned, and its records were written unless it cannot be read
Handled(r, path) ==
    \E i \in 1..Len(events) :
        /\ events[i].kind = "check" /\ events[i].root = r /\ events[i].path = path
        /\ ~events[i].arg =>
              /\ \E j \in Scans : events[j].kind = "scan" /\ SameFile(events[i], events[j])
              /\ path \notin unreadable =>
                    EmittedLines(r, path) = ScanLines(search_file(FileContent[path]))

WalkFailed == failure # None /\ failure[1].message = "walkdir"

\* C16: a sequential walk never passes an entry that cannot be inspected: it
\* ends the run with an error at that entry, every file enumerated before it
\* is handled and nothing enumerated after it is checked, scanned or written;
\* a parallel run never fails for such an entry, and when it has succeeded
\* every file its walks yielded is handled.
C16_WalkErrorPerMode ==
    /\ (~use_parallel /\ rpc = "walk") =>
          \A k \in 1..(wpos - 1) : k <= Len(WalkDir(iroot)) => WalkDir(iroot)[k].ok
    /\ WalkFailed =>
          /\ ~use_parallel /\ rpc = "done" /\ status = "error"
          /\ failure[1].path \in walk_errors
          /\ \A p \in Yielded(ri) :
                WalkIndex(p) < WalkIndex(failure[1].path) => Handled(ri, p)
          /\ \A i \in 1..Len(events) :
                events[i].root = ri => WalkIndex(events[i].path) < WalkIndex(failure[1].path)
    /\ (use_parallel /\ rpc = "done" /\ status = "ok") =>
          \A r \in 1..Len(roots) : ~is_file(roots[r]) => \A p \in Yielded(r) : Handled(r, p)

\* A sequential walk that wrote records and then ended at a directory that
\* cannot be read, with a file enumerated after it left alone
C16_Witness ==
    /\ WalkFailed /\ rpc = "done" /\ output # <<>>
    /\ \E p \in Yielded(ri) : WalkIndex(p) > WalkIndex(failure[1].path)

\* A parallel run over a directory that cannot be read, which succeeded
C16_ParallelWitness ==
    /\ use_parallel /\ rpc = "done" /\ status = "ok" /\ walk_errors # {} /\ output # <<>>

\* Root argument r was processed to its end
RootDone(r) ==
    IF is_file(roots[r]) THEN Handled(r, roots[r])
    ELSE \A p \in Yielded(r) : Handled(r, p)

PathNotFound == failure # None /\ failure[1].message = "File or directory not found"

\* C17: the root arguments are processed in the order given and none is begun
\* beyond one that does not exist: there the run ends with the error that
\* names it, nothing is done for it or for a later root, and the roots before
\* it were processed to their end, their records written.
C17_RootsInOrderUntilMissing ==
    /\ \A i, j \in 1..Len(events) : i < j => events[i].root <= events[j].root
    /\ \A i \in 1..Len(events) : events[i].root <= ri /\ events[i].root <= Len(roots)
    /\ \A r \in 1..Len(roots) : r < ri => exists(roots[r])
    /\ (rpc = "done" /\ status = "ok") => \A r \in 1..Len(roots) : exists(roots[r])
    /\ PathNotFound =>
          /\ rpc = "done" /\ status = "error"
          /\ ~exists(roots[ri]) /\ failure[1].path = roots[ri]
          /\ \A i \in 1..Len(events) : events[i].root < ri
          /\ \A r \in 1..(ri - 1) : RootDone(r)

\* A run that wrote the records of its first root and failed at the second,
\* which does not exist
C17_Witness ==
    /\ PathNotFound /\ rpc = "done" /\ ri = 2
    /\ \E i \in 1..Len(events) : events[i].kind = "emit" /\ events[i].root = 1

\* The scans of a file of a root argument in the log
ScansOf(r, path) ==
    {i \in 1..Len(events) :
        events[i].kind = "scan" /\ events[i].root = r /\ events[i].path = path}

\* What C18 asks of every state: a file is scanned at most once under a root
\* argument, a worker that holds a file holds one of the list that was taken,
\* the holder of the printer lock is a worker that prints, and outside of
\* for_each no worker holds a file or the lock and, in a parallel run, every
\* file that passed the filter of a root that is over was scanned.
ScannedOnceAndJoined ==
    /\ \A i \in 1..Len(events) : Cardinality(ScansOf(events[i].root, events[i].path)) <= 1
    /\ \A w \in DOMAIN workers :
          workers[w].pc # "idle" => \E i \in taken : files[i] = workers[w].path
    /\ printer # 0 => workers[printer].pc \in {"print", "write"}
    /\ rpc # "workers" =>
          /\ printer = 0
          /\ \A w \in DOMAIN workers : workers[w].pc = "idle"
    /\ (use_parallel /\ rpc \in {"next", "done"}) =>
          \A i \in 1..Len(events) :
              (events[i].kind = "check" /\ ~events[i].arg /\ ~is_file(roots[events[i].root]))
                  => Cardinality(ScansOf(events[i].root, events[i].path)) = 1

\* C18: every run comes to its end, with or without an error, whatever the
\* order in which the workers take files and the printer lock; on the way
\* every file of the filtered list is scanned exactly once and the walk
\* returns only when every worker is done.
C18_TerminatesScannedOnce == <>(rpc = "done") /\ []ScannedOnceAndJoined

\* A parallel run that is over, in which two files were scanned
C18_Witness ==
    /\ use_parallel /\ rpc = "done" /\ status = "ok"
    /\ \E i, j \in Scans :
          events[i].kind = "scan" /\ events[j].kind = "scan" /\ ~SameFile(events[i], events[j])

\* One of the directories of the path is named .git
GitSegment(path) == \E i \in 1..(Len(path) - 1) : path[i] = nGit

\* The files among the first n items of the walk of root
WalkedFiles(root, n) ==
    {WalkDir(root)[k].path : k \in {k \in 1..n :
        /\ k <= Len(WalkDir(root))
        /\ WalkDir(root)[k].ok /\ WalkDir(root)[k].is_file}}

\* should_ignore was asked about the file under root argument r
Checked(r, path) ==
    \E i \in 1..Len(events) :
        events[i].kind = "check" /\ events[i].root = r /\ events[i].path = path

\* C21: in a walk of either mode a file the walk has yielded went on to the
\* ignore check if and only if no directory of its path is named .git, both
\* for the entries passed so far in a walk under way and for every entry of a
\* walk that is over.
C21_SkippedIffGitSegment ==
    /\ rpc \in {"walk", "collect"} =>
          \A p \in WalkedFiles(iroot, wpos - 1) : Checked(ri, p) <=> ~GitSegment(p)
    /\ \A r \in 1..Len(roots) :
          (r < ri /\ ~is_file(roots[r])) =>
              \A p \in WalkedFiles(roots[r], Len(WalkDir(roots[r]))) :
                  Checked(r, p) <=> ~GitSegment(p)

\* C21 for the files that are not under a directory whose name ends in .git
\* without being .git
C21_OutsideNamesEndingInGit ==
    /\ rpc \in {"walk", "collect"} =>
          \A p \in WalkedFiles(iroot, wpos - 1) :
              (git_skipped(p) => GitSegment(p)) => (Checked(ri, p) <=> ~GitSegment(p))
    /\ \A r \in 1..Len(roots) :
          (r < ri /\ ~is_file(roots[r])) =>
              \A p \in WalkedFiles(roots[r], Len(WalkDir(roots[r]))) :
                  (git_skipped(p) => GitSegment(p)) => (Checked(r, p) <=> ~GitSegment(p))

\* The workers that are between printer.lock() and the end of their closure,
\* and those inside print_match
Emitting == {w \in DOMAIN workers : workers[w].pc \in {"print", "write"}}
Writing == {w \in DOMAIN workers : workers[w].pc = "write"}

\* The records written, in the order of the log
Emits == SelectSeq(events, LAMBDA e : e.kind = "emit")

\* The records search_file finds in a file
RecordsOf(path) == records(path, search_file(FileContent[path]))

\* C22: in a parallel run at most one worker is emitting at any time and it
\* is the holder of the printer lock, which it keeps from its first record to
\* its last; what standard output holds is whole records, each a record of
\* the file it names, one for each record logged; and the records of a file,
\* under one root argument, are next to each other, none of another file in
\* between.
C22_OneWriterWholeBlocks ==
    use_parallel =>
        /\ Cardinality(Emitting) <= 1
        /\ \A w \in Emitting : printer = w
        /\ \A w \in DOMAIN workers :
              (workers[w].pc = "lock" \/ workers[w].pc = "idle") => printer # w
        /\ \A w \in DOMAIN workers :
              (workers[w].pc = "lock" => workers[w].k = 1)
              /\ (workers[w].pc = "write" => workers[w].k <= Len(workers[w].recs))
        /\ Len(output) = Len(Emits)
        /\ \A i \in 1..Len(output) :
              /\ output[i].path = Emits[i].path /\ output[i].line = Emits[i].arg
              /\ \E k \in 1..Len(RecordsOf(output[i].path)) :
                    output[i] = RecordsOf(output[i].path)[k]
        /\ \A i, j, k \in 1..Len(Emits) :
              (i < j /\ j < k /\ SameFile(Emits[i], Emits[k])) => SameFile(Emits[i], Emits[j])

\* A worker is inside print_match for the second record of its file while
\* another, which has records to write, waits for the printer lock
C22_Witness ==
    /\ use_parallel
    /\ \E w \in Writing : workers[w].k = 2
    /\ \E v \in DOMAIN workers : workers[v].pc = "lock" /\ workers[v].recs # <<>>

\* A parallel run that is over and wrote the records of two files, two of
\* them of one file
C22_BlocksWitness ==
    /\ use_parallel /\ rpc = "done" /\ status = "ok"
    /\ \E i, j, k \in 1..Len(Emits) :
          i < j /\ SameFile(Emits[i], Emits[j]) /\ ~SameFile(Emits[i], Emits[k])

\* How often a record occurs in what was written
Occurrences(out, rec) == Cardinality({i \in 1..Len(out) : out[i] = rec})
SameRecords(out1, out2) ==
    \A rec \in {out1[i] : i \in 1..Len(out1)} \cup {out2[i] : i \in 1..Len(out2)} :
        Occurrences(out1, rec) = Occurrences(out2, rec)

\* Both runs, one in each mode, are over and no directory failed to be walked
BothModesDone == rpc = "done" /\ prev # None /\ walk_errors = {}

\* C23: when a command has been run in one mode and then in the other on the
\* same tree, with no walk error, the two runs called search_file on the same
\* files with the same outcome, wrote the same records the same number of
\* times, and returned the same status.
C23_SameRecordsInBothModes ==
    BothModesDone =>
        /\ ScannedFiles = prev[1].scanned
        /\ SameRecords(output, prev[1].output)
        /\ status = prev[1].status

\* C23 for two runs whose matchers selected the same rare byte
C23_WithSameRareByte ==
    (BothModesDone /\ rare_byte = prev[1].rare_byte) =>
        /\ ScannedFiles = prev[1].scanned
        /\ SameRecords(output, prev[1].output)
        /\ status = prev[1].status

\* The part of C23 about the files selected, whatever the rare bytes
C23_SameFilesInBothModes ==
    BothModesDone => ScannedFiles = prev[1].scanned /\ status = prev[1].status

\* The call find_matches(haystack) was made on a matcher of the rare-byte tier
RareByteCall == literal = None /\ rare_byte # None /\ (matches # None \/ panicked)

\* The offsets at which the rare byte occurs in the line of the call
RareOccurrences == {o \in 0..(Len(haystack) - 1) : haystack[o + 1] = rare_byte[1]}

\* C24: find_matches is total on the rare-byte tier: for every line, long and
\* with multi-byte characters included, and every selected rare byte, the
\* edges of the window around each occurrence and the resume position after
\* it are character boundaries of the line, so the call returns a result and
\* never panics.
C24_RareByteTierTotal ==
    RareByteCall =>
        /\ \A o \in RareOccurrences :
              /\ is_char_boundary(haystack, window_start(o))
              /\ is_char_boundary(haystack, window_end(o, Len(haystack)))
              /\ is_char_boundary(haystack, o + 1)
        /\ matches # None
        /\ ~panicked

\* What does hold: a call panics only on the rare-byte tier and only on a line
\* that holds a multi-byte character
C24_PanicsNeedMultiByte ==
    panicked => RareByteCall /\ \E i \in 1..Len(haystack) : haystack[i] = Cont

\* C6: when the same command has been run twice on the same tree, the second
\* run has written what the first wrote, record for record
C6_SameOutputTwice ==
    (rpc = "done" /\ prev # None) => output = prev[1].output

=============================================================================
